---------------------------- MODULE Spec2Model ----------------------------
(***************************************************************************)
(* Model of the Whiteboard component of ng-whiteboard                      *)
(* (src/app/src/app/app.ts): viewport signals, stroke list, mouse, wheel   *)
(* and touch handlers, erase hit-testing and SVG path import/export.       *)
(*                                                                         *)
(* JavaScript numbers are modelled as exact rationals n/d extended with    *)
(* the IEEE-754 special values: d = 0 stands for +Infinity (n = 1),        *)
(* -Infinity (n = -1) and NaN (n = 0).  Rounding of doubles is not         *)
(* modelled.  The value `undefined` (read past the end of an array) is     *)
(* the record Undefined and converts to NaN in arithmetic.                 *)
(***************************************************************************)
EXTENDS Integers, Sequences, FiniteSets, TLC

(***************************************************************************)
(* Bounds of the model.                                                    *)
(***************************************************************************)
MaxSteps == 4
MaxPoints == 3
MaxContacts == 3

(***************************************************************************)
(* JavaScript numbers.                                                     *)
(***************************************************************************)
Abs(k) == IF k < 0 THEN -k ELSE k

Sgn(k) == IF k < 0 THEN -1 ELSE IF k > 0 THEN 1 ELSE 0

RECURSIVE GCD(_, _)
GCD(a, b) == IF b = 0 THEN a ELSE GCD(b, a % b)

Norm(n, d) ==
    IF d = 0 THEN [n |-> Sgn(n), d |-> 0]
    ELSE LET g == GCD(Abs(n), Abs(d))
         IN  [n |-> Sgn(d) * (n \div g), d |-> Abs(d) \div g]

I(k) == [n |-> k, d |-> 1]

NaN == [n |-> 0, d |-> 0]

Infinity == [n |-> 1, d |-> 0]

Undefined == [n |-> 0, d |-> -1]

\* ToNumber: undefined becomes NaN, numbers are themselves
ToNum(a) == IF a.d < 0 THEN NaN ELSE a

IsNaN(a) == ToNum(a) = NaN

IsFinite(a) == a.d > 0

Neg(a) == LET x == ToNum(a) IN [n |-> -x.n, d |-> x.d]

Add(a, b) ==
    LET x == ToNum(a)
        y == ToNum(b)
    IN  IF x.d = 0 /\ y.d = 0 THEN (IF x.n = y.n THEN x ELSE NaN)
        ELSE IF x.d = 0 THEN x
        ELSE IF y.d = 0 THEN y
        ELSE LET g == GCD(x.d, y.d)
             IN  Norm(x.n * (y.d \div g) + y.n * (x.d \div g), (x.d \div g) * y.d)

Sub(a, b) == Add(a, Neg(b))

Mul(a, b) ==
    LET x == ToNum(a)
        y == ToNum(b)
        g == IF x.d = 0 \/ y.d = 0 THEN 1 ELSE GCD(Abs(x.n), y.d)
        h == IF x.d = 0 \/ y.d = 0 THEN 1 ELSE GCD(Abs(y.n), x.d)
    IN  Norm((x.n \div g) * (y.n \div h), (x.d \div h) * (y.d \div g))

\* a / b; a zero divisor is +0 (every divisor of the program is a
\* width, a squared length or a Math.hypot result)
Div(a, b) ==
    LET x == ToNum(a)
        y == ToNum(b)
        s == IF y.n < 0 THEN -1 ELSE 1
    IN  IF y.d = 0 \/ y.n = 0 THEN Norm(x.n * y.d * s, x.d * Abs(y.n))
        ELSE Mul(x, [n |-> s * y.d, d |-> Abs(y.n)])

\* a < b (false when either side is NaN)
Lt(a, b) ==
    LET x == ToNum(a)
        y == ToNum(b)
    IN  /\ x # NaN
        /\ y # NaN
        /\ IF x.d = 0 \/ y.d = 0 THEN x.n * y.d < y.n * x.d \/ (x.d = y.d /\ x.n < y.n)
           ELSE LET g == GCD(x.d, y.d)
                IN  x.n * (y.d \div g) < y.n * (x.d \div g)

\* a === b
StrictEq(a, b) == a = b /\ ~IsNaN(a)

MathMax(a, b) ==
    IF IsNaN(a) \/ IsNaN(b) THEN NaN ELSE IF Lt(a, b) THEN ToNum(b) ELSE ToNum(a)

MathMin(a, b) ==
    IF IsNaN(a) \/ IsNaN(b) THEN NaN ELSE IF Lt(b, a) THEN ToNum(b) ELSE ToNum(a)

\* Math.pow(a, 2)
Pow2(a) == Mul(a, a)

\* largest r in lo..hi with r * r <= k (bisection; hi stays below 2^15)
RECURSIVE ISqrtIn(_, _, _)
ISqrtIn(k, lo, hi) ==
    IF lo >= hi THEN lo
    ELSE LET mid == (lo + hi + 1) \div 2
         IN  IF mid * mid <= k THEN ISqrtIn(k, mid, hi) ELSE ISqrtIn(k, lo, mid - 1)

ISqrt(k) == ISqrtIn(k, 0, IF k < 32767 THEN k ELSE 32767)

IsSquare(k) == k >= 0 /\ ISqrt(k) * ISqrt(k) = k

\* A Math.hypot result that is not rational is kept as the root of its
\* square: [sq |-> q] stands for the square root of the finite q > 0.
IsRoot(h) == "sq" \in DOMAIN h

\* Math.hypot(a, b)
Hypot(a, b) ==
    LET x == ToNum(a)
        y == ToNum(b)
        q == Add(Pow2(x), Pow2(y))
    IN  IF x.d = 0 /\ x.n # 0 THEN Infinity
        ELSE IF y.d = 0 /\ y.n # 0 THEN Infinity
        ELSE IF q = NaN THEN NaN
        ELSE IF IsSquare(q.n) /\ IsSquare(q.d)
             THEN [n |-> ISqrt(q.n), d |-> ISqrt(q.d)]
             ELSE [sq |-> q]

\* h < t for a Math.hypot result h
HypotLt(h, t) ==
    IF IsRoot(h)
    THEN Lt(I(0), t) /\ Lt(h.sq, Pow2(t))
    ELSE Lt(h, t)

\* a / b for two Math.hypot results: the root of the quotient of the squares
HypotDiv(a, b) ==
    IF ~IsRoot(a) /\ ~IsRoot(b) THEN Div(a, b)
    ELSE LET q == Div(IF IsRoot(a) THEN a.sq ELSE Pow2(a),
                      IF IsRoot(b) THEN b.sq ELSE Pow2(b))
         IN  IF q.d = 0 THEN q
             ELSE IF IsSquare(q.n) /\ IsSquare(q.d)
                  THEN [n |-> ISqrt(q.n), d |-> ISqrt(q.d)]
                  ELSE [sq |-> q]

(***************************************************************************)
(* State of the Whiteboard component and of its environment.               *)
(***************************************************************************)
VARIABLES
    paths,                 \* signal paths: the committed strokes
    color,                 \* signal color
    strokeWidth,           \* signal strokeWidth
    mode,                  \* signal mode
    viewBoxX,              \* signal viewBoxX
    viewBoxY,              \* signal viewBoxY
    viewBoxWidth,          \* signal viewBoxWidth
    viewBoxHeight,         \* signal viewBoxHeight
    currentPath,           \* the active stroke (or the pan anchor), or Null
    isDrawing,
    isPanning,
    touches,               \* Map<number, TouchInfo> in insertion order
    initialPinchDistance,
    pinchCenter,
    frozenViewBox,
    rect,                  \* svg.getBoundingClientRect()
    surface,               \* the contacts on the touch surface (event.touches)
    uuid,                  \* number of crypto.randomUUID() calls so far
    op,                    \* the handler that ran last
    steps                  \* number of events delivered so far

view == <<viewBoxX, viewBoxY, viewBoxWidth, viewBoxHeight>>

stroke == <<paths, currentPath, isDrawing>>

pinch == <<initialPinchDistance, pinchCenter, frozenViewBox>>

settings == <<color, strokeWidth, mode>>

component == <<paths, color, strokeWidth, mode, view, currentPath, isDrawing,
               isPanning, touches, pinch>>

vars == <<component, rect, surface, uuid, op, steps>>

Null == [null |-> TRUE]

Mode == {"draw", "pan", "erase"}

Pt(x, y) == [x |-> x, y |-> y]

\* the n-th identifier crypto.randomUUID() hands out
RandomUUID(n) == ToString(n)

(***************************************************************************)
(* Inputs of the environment: screen positions of the mouse and of the     *)
(* fingers, stroke widths, bounding rectangles.                            *)
(***************************************************************************)
MousePts == {Pt(I(0), I(0)), Pt(I(8), I(0)), Pt(I(4), I(4))}

TouchPts == {Pt(I(0), I(0)), Pt(I(4), I(0)), Pt(I(8), I(0))}

WheelPts == {Pt(I(0), I(0)), Pt(I(4), I(4))}

WheelDeltas == {I(-100), I(0), I(100)}

StrokeWidths == {I(2), I(3)}

Rects == {[left |-> I(0), top |-> I(0), width |-> I(1000), height |-> I(1000)],
          [left |-> I(2), top |-> I(0), width |-> I(500), height |-> I(1000)]}

(***************************************************************************)
(* Coordinate transformation.                                              *)
(***************************************************************************)
ScreenToSVG(screenX, screenY) ==
    Pt(Add(viewBoxX, Mul(Div(Sub(screenX, rect.left), rect.width), viewBoxWidth)),
       Add(viewBoxY, Mul(Div(Sub(screenY, rect.top), rect.height), viewBoxHeight)))

(***************************************************************************)
(* Erase hit-testing.                                                      *)
(***************************************************************************)
DistanceToSegment(p, v, w) ==
    LET l2 == Add(Pow2(Sub(v.x, w.x)), Pow2(Sub(v.y, w.y)))
    IN  IF StrictEq(l2, I(0)) THEN Hypot(Sub(p.x, v.x), Sub(p.y, v.y))
        ELSE LET t0 == Div(Add(Mul(Sub(p.x, v.x), Sub(w.x, v.x)),
                               Mul(Sub(p.y, v.y), Sub(w.y, v.y))), l2)
                 t == MathMax(I(0), MathMin(I(1), t0))
                 projX == Add(v.x, Mul(t, Sub(w.x, v.x)))
                 projY == Add(v.y, Mul(t, Sub(w.y, v.y)))
             IN  Hypot(Sub(p.x, projX), Sub(p.y, projY))

\* a comparison that also takes a segment at exactly the tolerance
PathIntersectsPointInclusive(path, point, tolerance) ==
    \E i \in 1..(Len(path.points) - 1) :
        LET dist == DistanceToSegment(point, path.points[i], path.points[i + 1])
        IN  HypotLt(dist, tolerance) \/ dist = tolerance

PathIntersectsPoint(path, point, tolerance) ==
    \E i \in 1..(Len(path.points) - 1) :
        HypotLt(DistanceToSegment(point, path.points[i], path.points[i + 1]),
                tolerance)

\* the list paths.update(...) of eraseAtPoint leaves
Erased(ps, point) ==
    LET eraseTolerance == Mul(strokeWidth, I(2))
    IN  SelectSeq(ps, LAMBDA path : ~PathIntersectsPoint(path, point, eraseTolerance))

EraseAtPoint(point) == paths' = Erased(paths, point)

(***************************************************************************)
(* Drawing methods.                                                        *)
(***************************************************************************)
StartDrawing(point) ==
    /\ isDrawing' = TRUE
    /\ currentPath' = [id |-> RandomUUID(uuid + 1), points |-> <<point>>,
                       color |-> color, strokeWidth |-> strokeWidth]
    /\ uuid' = uuid + 1

\* mutant of ContinueDrawing: the point also goes to the last committed stroke
ContinueDrawingIntoCommitted(point) ==
    /\ currentPath' = IF currentPath = Null THEN Null
                      ELSE [currentPath EXCEPT !.points = Append(@, point)]
    /\ paths' = IF currentPath = Null \/ paths = <<>> THEN paths
                ELSE [paths EXCEPT ![Len(paths)].points = Append(@, point)]

ContinueDrawing(point) ==
    /\ currentPath' = IF currentPath = Null THEN Null
                      ELSE [currentPath EXCEPT !.points = Append(@, point)]
    /\ UNCHANGED paths

\* mutant of StopDrawing: commits a stroke of a single point
StopDrawingAnyLength ==
    /\ paths' = IF currentPath # Null /\ Len(currentPath.points) > 0
                THEN Append(paths, currentPath)
                ELSE paths
    /\ currentPath' = Null
    /\ isDrawing' = FALSE

StopDrawing ==
    /\ paths' = IF currentPath # Null /\ Len(currentPath.points) > 1
                THEN Append(paths, currentPath)
                ELSE paths
    /\ currentPath' = Null
    /\ isDrawing' = FALSE

\* bound of the model: a stroke takes at most MaxPoints points
RoomToDraw == IF currentPath = Null THEN TRUE ELSE Len(currentPath.points) < MaxPoints

(***************************************************************************)
(* Resize, mouse and wheel handlers.  An event e carries clientX, clientY  *)
(* (and deltaY for the wheel).                                             *)
(***************************************************************************)
baseHeight == 1000

\* handleResize, run with the bounding rectangle r
HandleResize(r) ==
    LET aspectRatio == Div(r.width, r.height)
    IN  /\ viewBoxWidth' = Mul(I(baseHeight), aspectRatio)
        /\ viewBoxHeight' = I(baseHeight)
        /\ UNCHANGED <<paths, settings, viewBoxX, viewBoxY, currentPath, isDrawing,
                       isPanning, touches, pinch, uuid>>

\* the record a mouse-down in pan mode stores in currentPath
PanAnchor(point) ==
    [id |-> "", points |-> <<point>>, color |-> "", strokeWidth |-> I(0)]

OnMouseDown(e) ==
    LET point == ScreenToSVG(e.clientX, e.clientY)
    IN  IF mode = "draw"
        THEN /\ StartDrawing(point)
             /\ UNCHANGED <<paths, settings, view, isPanning, touches, pinch>>
        ELSE IF mode = "pan"
        THEN /\ isPanning' = TRUE
             /\ currentPath' = PanAnchor(point)
             /\ UNCHANGED <<paths, settings, view, isDrawing, touches, pinch, uuid>>
        ELSE /\ EraseAtPoint(point)
             /\ UNCHANGED <<settings, view, currentPath, isDrawing, isPanning,
                            touches, pinch, uuid>>

OnMouseMove(e) ==
    LET point == ScreenToSVG(e.clientX, e.clientY)
    IN  IF ~isDrawing /\ ~isPanning
        THEN UNCHANGED <<component, uuid>>
        ELSE IF mode = "draw" /\ isDrawing
        THEN /\ ContinueDrawing(point)
             /\ UNCHANGED <<settings, view, isDrawing, isPanning, touches, pinch, uuid>>
        ELSE IF mode = "pan" /\ isPanning /\ currentPath # Null
        THEN LET lastPoint == currentPath.points[Len(currentPath.points)]
                 dx == Sub(point.x, lastPoint.x)
                 dy == Sub(point.y, lastPoint.y)
             IN  /\ viewBoxX' = Sub(viewBoxX, dx)
                 /\ viewBoxY' = Sub(viewBoxY, dy)
                 /\ UNCHANGED <<paths, settings, viewBoxWidth, viewBoxHeight,
                                currentPath, isDrawing, isPanning, touches, pinch,
                                uuid>>
        ELSE IF mode = "erase"
        THEN /\ EraseAtPoint(point)
             /\ UNCHANGED <<settings, view, currentPath, isDrawing, isPanning,
                            touches, pinch, uuid>>
        ELSE UNCHANGED <<component, uuid>>

OnMouseUp ==
    IF mode = "draw"
    THEN /\ StopDrawing
         /\ UNCHANGED <<settings, view, isPanning, touches, pinch, uuid>>
    ELSE IF mode = "pan"
    THEN /\ isPanning' = FALSE
         /\ currentPath' = Null
         /\ UNCHANGED <<paths, settings, view, isDrawing, touches, pinch, uuid>>
    ELSE UNCHANGED <<component, uuid>>

\* mutant of ZoomFactor: a wheel event of deltaY 0 zooms out
ZoomFactorOutAtZero(deltaY) ==
    IF Lt(deltaY, I(0)) THEN Div(I(9), I(10)) ELSE Div(I(11), I(10))

\* zoomFactor of onWheel: 1.1 or 0.9
ZoomFactor(deltaY) == IF Lt(I(0), deltaY) THEN Div(I(11), I(10)) ELSE Div(I(9), I(10))

OnWheel(e) ==
    LET mouseX == Sub(e.clientX, rect.left)
        mouseY == Sub(e.clientY, rect.top)
        svgPoint == ScreenToSVG(e.clientX, e.clientY)
        zoomFactor == ZoomFactor(e.deltaY)
        newWidth == Mul(viewBoxWidth, zoomFactor)
        newHeight == Mul(viewBoxHeight, zoomFactor)
        mouseRelX == Div(mouseX, rect.width)
        mouseRelY == Div(mouseY, rect.height)
        newX == Sub(svgPoint.x, Mul(mouseRelX, newWidth))
        newY == Sub(svgPoint.y, Mul(mouseRelY, newHeight))
    IN  /\ viewBoxX' = newX
        /\ viewBoxY' = newY
        /\ viewBoxWidth' = newWidth
        /\ viewBoxHeight' = newHeight
        /\ UNCHANGED <<paths, settings, currentPath, isDrawing, isPanning, touches,
                       pinch, uuid>>

SetMode(m) ==
    /\ mode' = m
    /\ UNCHANGED <<paths, color, strokeWidth, view, currentPath, isDrawing,
                   isPanning, touches, pinch, uuid>>

\* the stroke width control of the toolbar writes the strokeWidth signal
SetStrokeWidth(w) ==
    /\ strokeWidth' = w
    /\ UNCHANGED <<paths, color, mode, view, currentPath, isDrawing,
                   isPanning, touches, pinch, uuid>>

(***************************************************************************)
(* Touch handlers.  A touch event e carries changedTouches and touches,    *)
(* sequences of Touch records [identifier, clientX, clientY]; sequences    *)
(* count from 1, so event.touches[0] is e.touches[1].  The Map touches is  *)
(* the sequence of its values in insertion order.                          *)
(***************************************************************************)
MapHas(m, id) == \E i \in 1..Len(m) : m[i].id = id

\* Map.set: an existing key keeps its place, a new key goes last
MapSet(m, info) ==
    IF MapHas(m, info.id)
    THEN [i \in 1..Len(m) |-> IF m[i].id = info.id THEN info ELSE m[i]]
    ELSE Append(m, info)

MapDelete(m, id) == SelectSeq(m, LAMBDA t : t.id # id)

\* the loop of onTouchStart over changedTouches[k..]
RECURSIVE TrackTouches(_, _, _)
TrackTouches(m, changed, k) ==
    IF k > Len(changed) THEN m
    ELSE LET touch == changed[k]
             point == ScreenToSVG(touch.clientX, touch.clientY)
         IN  TrackTouches(MapSet(m, [id |-> touch.identifier,
                                     startX |-> point.x, startY |-> point.y,
                                     lastX |-> point.x, lastY |-> point.y]),
                          changed, k + 1)

\* the loop of onTouchMove over changedTouches[k..]
RECURSIVE UpdateTouches(_, _, _)
UpdateTouches(m, changed, k) ==
    IF k > Len(changed) THEN m
    ELSE LET touch == changed[k]
             point == ScreenToSVG(touch.clientX, touch.clientY)
         IN  UpdateTouches([i \in 1..Len(m) |->
                               IF m[i].id = touch.identifier
                               THEN [m[i] EXCEPT !.lastX = point.x, !.lastY = point.y]
                               ELSE m[i]],
                           changed, k + 1)

\* the loop of onTouchEnd over changedTouches[k..]
RECURSIVE ForgetTouches(_, _, _)
ForgetTouches(m, changed, k) ==
    IF k > Len(changed) THEN m
    ELSE ForgetTouches(MapDelete(m, changed[k].identifier), changed, k + 1)

\* Math.hypot(t2.lastX - t1.lastX, t2.lastY - t1.lastY)
TouchDistance(t1, t2) == Hypot(Sub(t2.lastX, t1.lastX), Sub(t2.lastY, t1.lastY))

OnTouchStart(e) ==
    LET tracked == TrackTouches(touches, e.changedTouches, 1)
    IN  /\ touches' = tracked
        /\ IF Len(tracked) = 2 /\ mode # "erase"
           THEN LET t1 == tracked[1]
                    t2 == tracked[2]
                IN  /\ initialPinchDistance' = TouchDistance(t1, t2)
                    /\ pinchCenter' = Pt(Div(Add(t1.lastX, t2.lastX), I(2)),
                                         Div(Add(t1.lastY, t2.lastY), I(2)))
                    /\ frozenViewBox' = [x |-> viewBoxX, y |-> viewBoxY,
                                         width |-> viewBoxWidth,
                                         height |-> viewBoxHeight]
                    /\ IF isDrawing
                       THEN StopDrawing
                       ELSE UNCHANGED <<paths, currentPath, isDrawing>>
                    /\ UNCHANGED <<settings, view, isPanning, uuid>>
           ELSE IF Len(tracked) = 1
           THEN LET point == ScreenToSVG(e.touches[1].clientX, e.touches[1].clientY)
                IN  IF mode = "draw"
                    THEN /\ StartDrawing(point)
                         /\ UNCHANGED <<paths, settings, view, isPanning, pinch>>
                    ELSE IF mode = "erase"
                    THEN /\ EraseAtPoint(point)
                         /\ UNCHANGED <<settings, view, currentPath, isDrawing,
                                        isPanning, pinch, uuid>>
                    ELSE UNCHANGED <<paths, settings, view, currentPath, isDrawing,
                                     isPanning, pinch, uuid>>
           ELSE UNCHANGED <<paths, settings, view, currentPath, isDrawing,
                            isPanning, pinch, uuid>>

\* scale of the pinch branch of onTouchMove
PinchScale(tracked) ==
    HypotDiv(initialPinchDistance, TouchDistance(tracked[1], tracked[2]))

\* the pinch branch of onTouchMove is taken
Pinching(tracked) == Len(tracked) = 2 /\ frozenViewBox # Null /\ pinchCenter # Null

OnTouchMove(e) ==
    LET tracked == UpdateTouches(touches, e.changedTouches, 1)
    IN  /\ touches' = tracked
        /\ IF Pinching(tracked)
           THEN IF Len(e.touches) < 2
                THEN \* event.touches[1] is undefined: TypeError, the handler stops
                     UNCHANGED <<paths, settings, view, currentPath, isDrawing,
                                 isPanning, pinch, uuid>>
                ELSE LET scale == PinchScale(tracked)
                         newWidth == Mul(frozenViewBox.width, scale)
                         newHeight == Mul(frozenViewBox.height, scale)
                         centerScreenX ==
                             Add(e.touches[1].clientX,
                                 Div(Sub(e.touches[2].clientX, e.touches[1].clientX), I(2)))
                         centerScreenY ==
                             Add(e.touches[1].clientY,
                                 Div(Sub(e.touches[2].clientY, e.touches[1].clientY), I(2)))
                         mouseRelX == Div(Sub(centerScreenX, rect.left), rect.width)
                         mouseRelY == Div(Sub(centerScreenY, rect.top), rect.height)
                     IN  /\ viewBoxX' = Sub(pinchCenter.x, Mul(mouseRelX, newWidth))
                         /\ viewBoxY' = Sub(pinchCenter.y, Mul(mouseRelY, newHeight))
                         /\ viewBoxWidth' = newWidth
                         /\ viewBoxHeight' = newHeight
                         /\ UNCHANGED <<paths, settings, currentPath, isDrawing,
                                        isPanning, pinch, uuid>>
           ELSE IF Len(tracked) = 1 /\ mode = "draw" /\ isDrawing
           THEN /\ ContinueDrawing(ScreenToSVG(e.touches[1].clientX, e.touches[1].clientY))
                /\ UNCHANGED <<settings, view, isDrawing, isPanning, pinch, uuid>>
           ELSE IF Len(tracked) = 1 /\ mode = "erase"
           THEN /\ EraseAtPoint(ScreenToSVG(e.touches[1].clientX, e.touches[1].clientY))
                /\ UNCHANGED <<settings, view, currentPath, isDrawing, isPanning,
                               pinch, uuid>>
           ELSE UNCHANGED <<paths, settings, view, currentPath, isDrawing,
                            isPanning, pinch, uuid>>

OnTouchEnd(e) ==
    LET tracked == ForgetTouches(touches, e.changedTouches, 1)
    IN  /\ touches' = tracked
        /\ IF Len(tracked) < 2
           THEN frozenViewBox' = Null /\ pinchCenter' = Null
           ELSE UNCHANGED <<frozenViewBox, pinchCenter>>
        /\ IF Len(tracked) = 0 /\ isDrawing
           THEN StopDrawing
           ELSE UNCHANGED <<paths, currentPath, isDrawing>>
        /\ UNCHANGED <<settings, view, isPanning, initialPinchDistance, uuid>>

(***************************************************************************)
(* Texts.  A text is a sequence of lexemes [c, v]: the single characters   *)
(* "M", "L", "Z", " ", ",", any other character, the word "undefined",     *)
(* and number literals (c = "number") carrying the number v they spell.    *)
(* A number literal is the text String(v) of a number, which Number() and  *)
(* parseFloat() read back as v; two literals are never adjacent.           *)
(***************************************************************************)
Ch(c) == [c |-> c, v |-> NaN]

Numeral(x) == [c |-> "number", v |-> x]

\* `${x}` for a coordinate x
NumberToString(x) == IF x = Undefined THEN Ch("undefined") ELSE Numeral(x)

IsSeparator(lex) == lex.c \in {" ", ","}

IsCommand(lex) == lex.c \in {"M", "L", "Z"}

\* Number(field) for one field of split()
ToNumber(field) ==
    IF Len(field) = 0 THEN I(0)
    ELSE IF Len(field) = 1 /\ field[1].c = "number" THEN field[1].v
    ELSE NaN

\* parseFloat(text)
RECURSIVE ParseFloat(_)
ParseFloat(text) ==
    IF Len(text) = 0 THEN NaN
    ELSE IF text[1].c = " " THEN ParseFloat(Tail(text))
    ELSE IF text[1].c = "number" THEN text[1].v
    ELSE NaN

\* text.trim()
RECURSIVE TrimLeft(_)
TrimLeft(text) ==
    IF Len(text) > 0 /\ text[1].c = " " THEN TrimLeft(Tail(text)) ELSE text

RECURSIVE TrimRight(_)
TrimRight(text) ==
    IF Len(text) > 0 /\ text[Len(text)].c = " "
    THEN TrimRight(SubSeq(text, 1, Len(text) - 1))
    ELSE text

Trim(text) == TrimRight(TrimLeft(text))

\* text.split(/[\s,]+/) from lexeme k on; cur is the field being read and
\* fields the fields read so far
RECURSIVE SplitFrom(_, _, _, _)
SplitFrom(text, k, cur, fields) ==
    IF k > Len(text) THEN Append(fields, cur)
    ELSE IF IsSeparator(text[k])
    THEN IF k > 1 /\ IsSeparator(text[k - 1])
         THEN SplitFrom(text, k + 1, cur, fields)
         ELSE SplitFrom(text, k + 1, <<>>, Append(fields, cur))
    ELSE SplitFrom(text, k + 1, Append(cur, text[k]), fields)

Split(text) == SplitFrom(text, 1, <<>>, <<>>)

\* d.match(/[MLZ][^MLZ]*/g) from lexeme k on (no match: the empty sequence)
RECURSIVE MatchFrom(_, _, _, _)
MatchFrom(d, k, cur, commands) ==
    IF k > Len(d) THEN (IF cur = <<>> THEN commands ELSE Append(commands, cur))
    ELSE IF IsCommand(d[k])
    THEN MatchFrom(d, k + 1, <<d[k]>>,
                   IF cur = <<>> THEN commands ELSE Append(commands, cur))
    ELSE MatchFrom(d, k + 1, IF cur = <<>> THEN cur ELSE Append(cur, d[k]), commands)

MatchCommands(d) == MatchFrom(d, 1, <<>>, <<>>)

\* the loop for (i = k; i < coords.length; i += 2) of parsePathData
RECURSIVE PairCoords(_, _)
PairCoords(coords, k) ==
    IF k > Len(coords) THEN <<>>
    ELSE <<Pt(coords[k], IF k + 1 <= Len(coords) THEN coords[k + 1] ELSE Undefined)>>
         \o PairCoords(coords, k + 2)

\* the points one command adds
CommandPoints(cmd) ==
    LET type == cmd[1].c
        fields == Split(Trim(Tail(cmd)))
        coords == [i \in 1..Len(fields) |-> ToNumber(fields[i])]
    IN  IF type = "M" \/ type = "L" THEN PairCoords(coords, 1) ELSE <<>>

RECURSIVE CommandsPoints(_, _)
CommandsPoints(commands, k) ==
    IF k > Len(commands) THEN <<>>
    ELSE CommandPoints(commands[k]) \o CommandsPoints(commands, k + 1)

ParsePathData(d) == CommandsPoints(MatchCommands(d), 1)

GetPathData(path) ==
    IF Len(path.points) = 0 THEN <<>>
    ELSE LET line(i) == <<Ch(" "), Ch("L"), Ch(" "),
                          NumberToString(path.points[i].x), Ch(" "),
                          NumberToString(path.points[i].y)>>
             lines[i \in 1..Len(path.points)] ==
                 IF i = 1 THEN <<>> ELSE lines[i - 1] \o line(i)
         IN  <<Ch("M"), Ch(" "), NumberToString(path.points[1].x), Ch(" "),
               NumberToString(path.points[1].y)>> \o lines[Len(path.points)]

(***************************************************************************)
(* SVG documents.  A parsed document says whether it has an svg root and   *)
(* lists its path elements; an attribute is [has, text] (getAttribute      *)
(* gives null when has is FALSE).                                          *)
(***************************************************************************)
NoAttr == [has |-> FALSE, text |-> <<>>]

\* a missing stroke attribute (the stroke attribute is kept as a string)
NoStroke == [has |-> FALSE, text |-> ""]

Attr(text) == [has |-> TRUE, text |-> text]

\* the paths parseSVG builds from path elements k.., the n-th UUID being next
RECURSIVE ParsedPaths(_, _, _)
ParsedPaths(els, k, n) ==
    IF k > Len(els) THEN <<>>
    ELSE LET pathEl == els[k]
         IN  IF ~pathEl.d.has \/ pathEl.d.text = <<>>
             THEN ParsedPaths(els, k + 1, n)
             ELSE <<[id |-> RandomUUID(n),
                     points |-> ParsePathData(pathEl.d.text),
                     color |-> IF pathEl.stroke.has /\ pathEl.stroke.text # ""
                               THEN pathEl.stroke.text ELSE "#000000",
                     strokeWidth |->
                         ParseFloat(IF pathEl.strokeWidth.has
                                       /\ pathEl.strokeWidth.text # <<>>
                                    THEN pathEl.strokeWidth.text
                                    ELSE <<Numeral(I(3))>>)]>>
                  \o ParsedPaths(els, k + 1, n + 1)

ParseSVG(doc) ==
    IF ~doc.svg
    THEN UNCHANGED <<component, uuid>>
    ELSE LET parsed == ParsedPaths(doc.paths, 1, uuid + 1)
         IN  /\ paths' = parsed
             /\ uuid' = uuid + Len(parsed)
             /\ UNCHANGED <<settings, view, currentPath, isDrawing, isPanning,
                            touches, pinch>>

\* the svg element as the template renders the committed strokes: one path
\* element per stroke with its path data, color and width
ExportSVG(ps) ==
    [svg |-> TRUE,
     paths |-> [i \in 1..Len(ps) |->
                  [d |-> Attr(GetPathData(ps[i])),
                   stroke |-> Attr(ps[i].color),
                   strokeWidth |-> Attr(<<NumberToString(ps[i].strokeWidth)>>)]]]

(***************************************************************************)
(* Documents the user may open.                                            *)
(***************************************************************************)
Num(k) == Numeral(I(k))

\* not an SVG document (a parser error document, or another root element)
NoSvgDoc == [svg |-> FALSE, paths |-> <<>>]

\* <svg></svg>
NoPathsDoc == [svg |-> TRUE, paths |-> <<>>]

\* three well-formed strokes: "M 0 0 L 8 0", "M4,4L4,8" (no stroke and no
\* stroke-width attribute) and "M 0 0 L 0 8"
ThreeStrokesDoc ==
    [svg |-> TRUE,
     paths |-> <<
        [d |-> Attr(<<Ch("M"), Ch(" "), Num(0), Ch(" "), Num(0), Ch(" "),
                      Ch("L"), Ch(" "), Num(8), Ch(" "), Num(0)>>),
         stroke |-> Attr("#ff0000"), strokeWidth |-> Attr(<<Num(2)>>)],
        [d |-> Attr(<<Ch("M"), Num(4), Ch(","), Num(4),
                      Ch("L"), Num(4), Ch(","), Num(8)>>),
         stroke |-> NoStroke, strokeWidth |-> NoAttr],
        [d |-> Attr(<<Ch("M"), Ch(" "), Num(0), Ch(" "), Num(0), Ch(" "),
                      Ch("L"), Ch(" "), Num(0), Ch(" "), Num(8)>>),
         stroke |-> Attr("#0000ff"), strokeWidth |-> Attr(<<Num(5)>>)] >>]

\* path data that is not a list of coordinate pairs: "M a b", "M 1 2 3",
\* "Z", and a path element without d
MalformedDoc ==
    [svg |-> TRUE,
     paths |-> <<
        [d |-> Attr(<<Ch("M"), Ch(" "), Ch("a"), Ch(" "), Ch("b")>>),
         stroke |-> Attr("#ff0000"), strokeWidth |-> Attr(<<Num(2)>>)],
        [d |-> Attr(<<Ch("M"), Ch(" "), Num(1), Ch(" "), Num(2), Ch(" "), Num(3)>>),
         stroke |-> Attr(""), strokeWidth |-> Attr(<<Ch("x")>>)],
        [d |-> Attr(<<Ch("Z")>>),
         stroke |-> NoStroke, strokeWidth |-> NoAttr],
        [d |-> NoAttr,
         stroke |-> Attr("#0000ff"), strokeWidth |-> Attr(<<Num(5)>>)] >>]

Docs == {NoSvgDoc, NoPathsDoc, ThreeStrokesDoc, MalformedDoc}

(***************************************************************************)
(* The state after construction: the signals' initial values, the resize   *)
(* effect run once on a 1000 x 1000 surface.                               *)
(***************************************************************************)
InitRect == [left |-> I(0), top |-> I(0), width |-> I(1000), height |-> I(1000)]

Init ==
    /\ paths = <<>>
    /\ color = "#000000"
    /\ strokeWidth = I(3)
    /\ mode = "draw"
    /\ viewBoxX = I(0)
    /\ viewBoxY = I(0)
    /\ viewBoxWidth = I(1000)
    /\ viewBoxHeight = I(1000)
    /\ currentPath = Null
    /\ isDrawing = FALSE
    /\ isPanning = FALSE
    /\ touches = <<>>
    /\ initialPinchDistance = I(0)
    /\ pinchCenter = Null
    /\ frozenViewBox = Null
    /\ rect = InitRect
    /\ surface = <<>>
    /\ uuid = 0
    /\ op = "init"
    /\ steps = 0

(***************************************************************************)
(* Events.  Each delivers one event to its handler.                        *)
(***************************************************************************)
Event(name) == steps < MaxSteps /\ steps' = steps + 1 /\ op' = name

MouseEvent(p) == [clientX |-> p.x, clientY |-> p.y]

Touch(id, p) == [identifier |-> id, clientX |-> p.x, clientY |-> p.y]

\* the identifier of a new contact: the smallest one not in use
FreshId == CHOOSE k \in 0..Len(surface) :
               /\ \A i \in 1..Len(surface) : surface[i].identifier # k
               /\ \A j \in 0..(k - 1) : \E i \in 1..Len(surface) : surface[i].identifier = j

ResizeTo(r) ==
    /\ Event("resize")
    /\ rect' = r
    /\ HandleResize(r)
    /\ UNCHANGED surface

Resize == \E r \in Rects : ResizeTo(r)

MouseDownAt(p) ==
    /\ Event("mouseDown")
    /\ OnMouseDown(MouseEvent(p))
    /\ UNCHANGED <<rect, surface>>

MouseDown == \E p \in MousePts : MouseDownAt(p)

MouseMoveTo(p) ==
    /\ Event("mouseMove")
    /\ RoomToDraw
    /\ OnMouseMove(MouseEvent(p))
    /\ UNCHANGED <<rect, surface>>

MouseMove == \E p \in MousePts : MouseMoveTo(p)

MouseUp ==
    /\ Event("mouseUp")
    /\ OnMouseUp
    /\ UNCHANGED <<rect, surface>>

WheelAt(p, deltaY) ==
    /\ Event("wheel")
    /\ OnWheel([clientX |-> p.x, clientY |-> p.y, deltaY |-> deltaY])
    /\ UNCHANGED <<rect, surface>>

Wheel == \E p \in WheelPts, deltaY \in WheelDeltas : WheelAt(p, deltaY)

SelectMode ==
    \E m \in Mode :
        /\ Event("setMode")
        /\ SetMode(m)
        /\ UNCHANGED <<rect, surface>>

SelectStrokeWidth ==
    \E w \in StrokeWidths :
        /\ Event("setStrokeWidth")
        /\ SetStrokeWidth(w)
        /\ UNCHANGED <<rect, surface>>

\* bound of the model: a pinch move is delivered when its scale is rational
RationalScale(e) ==
    LET tracked == UpdateTouches(touches, e.changedTouches, 1)
    IN  IF Pinching(tracked) THEN ~IsRoot(PinchScale(tracked)) ELSE TRUE

\* a finger lands on the board at p
TouchStartAt(p) ==
    /\ Len(surface) < MaxContacts
    /\ Event("touchStart")
    /\ surface' = Append(surface, Touch(FreshId, p))
    /\ OnTouchStart([changedTouches |-> <<Touch(FreshId, p)>>,
                     touches |-> surface'])
    /\ UNCHANGED rect

TouchStart == \E p \in TouchPts : TouchStartAt(p)

\* a finger lands on the page outside the board: no handler of the board runs
TouchElsewhere ==
    \E p \in TouchPts :
        /\ Len(surface) < MaxContacts
        /\ Event("touchElsewhere")
        /\ surface' = Append(surface, Touch(FreshId, p))
        /\ UNCHANGED <<component, uuid, rect>>

\* the contacts after those at the places `moved` of surface report the
\* positions `to`
Moved(moved, to) ==
    [i \in 1..Len(surface) |->
        IF i \in moved THEN Touch(surface[i].identifier, to[i]) ELSE surface[i]]

\* the touchmove event of those contacts
TouchMoveEvent(moved, to) ==
    [changedTouches |->
         SelectSeq(Moved(moved, to), LAMBDA t :
             \E i \in moved : surface[i].identifier = t.identifier),
     touches |-> Moved(moved, to)]

\* one or two fingers move (or report their positions again)
TouchMoveOf(moved, to) ==
    /\ Event("touchMove")
    /\ RoomToDraw
    /\ RationalScale(TouchMoveEvent(moved, to))
    /\ surface' = Moved(moved, to)
    /\ OnTouchMove(TouchMoveEvent(moved, to))
    /\ UNCHANGED rect

\* the sets of one or two places of surface
MovedSets == {m \in SUBSET (1..Len(surface)) : Cardinality(m) \in {1, 2}}

TouchMove == \E moved \in MovedSets : \E to \in [moved -> TouchPts] : TouchMoveOf(moved, to)

\* the finger at place k of surface is lifted
TouchEndOf(k) ==
    LET after == SelectSeq(surface, LAMBDA t : t.identifier # surface[k].identifier)
    IN  /\ Event("touchEnd")
        /\ surface' = after
        /\ OnTouchEnd([changedTouches |-> <<surface[k]>>, touches |-> after])
        /\ UNCHANGED rect

TouchEnd == \E k \in 1..Len(surface) : TouchEndOf(k)

\* the contact at place k leaves the surface and no touch-end reaches the
\* board (the browser cancels the touch; the component handles touch-start,
\* touch-move and touch-end only)
TouchCancelOf(k) ==
    /\ Event("touchCancel")
    /\ surface' = SelectSeq(surface, LAMBDA t : t.identifier # surface[k].identifier)
    /\ UNCHANGED <<component, uuid, rect>>

TouchCancel == \E k \in 1..Len(surface) : TouchCancelOf(k)

\* the user opens the file doc
ImportOf(doc) ==
    /\ Event("import")
    /\ ParseSVG(doc)
    /\ UNCHANGED <<rect, surface>>

Import == \E doc \in Docs : ImportOf(doc)

Next ==
    \/ Resize
    \/ MouseDown
    \/ MouseMove
    \/ MouseUp
    \/ Wheel
    \/ SelectMode
    \/ SelectStrokeWidth
    \/ TouchStart
    \/ TouchElsewhere
    \/ TouchMove
    \/ TouchEnd
    \/ TouchCancel
    \/ Import

Spec == Init /\ [][Next]_vars

(***************************************************************************)
(* Properties.                                                             *)
(***************************************************************************)

\* the tracked pinch is the one onTouchMove recomputes the viewport from
PinchInProgress ==
    /\ Len(touches) = 2
    /\ frozenViewBox # Null
    /\ pinchCenter # Null
    /\ Len(surface) >= 2

\* the two tracked touches are recorded at different finite plane points, so
\* the distance onTouchMove measures between them is positive
TouchesApart ==
    /\ \A k \in 1..2 : IsFinite(touches[k].lastX) /\ IsFinite(touches[k].lastY)
    /\ (touches[1].lastX # touches[2].lastX \/ touches[1].lastY # touches[2].lastY)

\* a pinch whose fingers were apart when it started and are apart now
ProperPinch ==
    /\ PinchInProgress
    /\ ~IsRoot(initialPinchDistance) /\ Lt(I(0), initialPinchDistance)
    /\ TouchesApart

\* C1 (mode isolation): while the mode is Erase no touch-start and no
\* touch-move changes the viewport origin, width or height.  Stated for
\* gestures whose fingers are apart: a pinch of distance zero is C7's case.
C1_ModeIsolation ==
    [][(/\ mode = "erase"
        /\ op' \in {"touchStart", "touchMove"}
        /\ (PinchInProgress' => ProperPinch'))
          => view' = view]_vars

\* the contact of the surface sf with identifier id
Contact(sf, id) == sf[CHOOSE i \in 1..Len(sf) : sf[i].identifier = id]

\* the plane point the frozen viewport maps a contact to
FrozenPoint(c) ==
    Pt(Add(frozenViewBox.x,
           Mul(Div(Sub(c.clientX, rect.left), rect.width), frozenViewBox.width)),
       Add(frozenViewBox.y,
           Mul(Div(Sub(c.clientY, rect.top), rect.height), frozenViewBox.height)))

\* the square of the distance between the two fingers tracked in ts where
\* the surface sf has them, measured in the frozen viewport like the
\* distance at gesture start
FingerDistance2(ts, sf) ==
    LET a == FrozenPoint(Contact(sf, ts[1].id))
        b == FrozenPoint(Contact(sf, ts[2].id))
    IN  Add(Pow2(Sub(b.x, a.x)), Pow2(Sub(b.y, a.y)))

\* both tracked fingers are on the surface, apart
FingersApart(ts, sf) ==
    /\ \A k \in 1..2 : \E i \in 1..Len(sf) : sf[i].identifier = ts[k].id
    /\ IsFinite(FingerDistance2(ts, sf))
    /\ Lt(I(0), FingerDistance2(ts, sf))

\* the viewport extent size is frozen x (distance at start) / (distance now),
\* stated on the squares: size > 0 and size^2 * now^2 = frozen^2 * start^2
Scaled(size, frozen, now2) ==
    /\ Lt(I(0), size)
    /\ Mul(Pow2(size), now2) = Mul(Pow2(frozen), Pow2(initialPinchDistance))

\* the gesture started on the surface and the viewport of the initial state
StartedAtRest ==
    /\ rect = InitRect
    /\ frozenViewBox = [x |-> I(0), y |-> I(0), width |-> I(1000), height |-> I(1000)]

\* C2 (pinch scale direction): after a touch-move of a pinch (one that
\* follows the start of the gesture or another of its touch-moves) the
\* viewport width and height are the frozen width and height times (finger
\* distance at gesture start) / (finger distance now): half the frozen values
\* when the fingers are twice as far apart as at the start, double when half.
C2_PinchScale ==
    [][(/\ op \in {"touchStart", "touchMove"} /\ ProperPinch /\ StartedAtRest
        /\ op' = "touchMove" /\ ProperPinch' /\ FingersApart(touches', surface'))
          => /\ Scaled(viewBoxWidth', frozenViewBox.width,
                       FingerDistance2(touches', surface'))
             /\ Scaled(viewBoxHeight', frozenViewBox.height,
                       FingerDistance2(touches', surface'))]_vars

\* C3 (frozen reference): a touch-move of a pinch that reports the finger
\* positions the previous touch-move of the same pinch reported leaves the
\* viewport that move left.
C3_FrozenReference ==
    [][(/\ op = "touchMove" /\ ProperPinch
        /\ op' = "touchMove" /\ surface' = surface /\ ProperPinch')
          => view' = view]_vars

\* stopDrawing runs in this step: a mouse-up in draw mode, a touch-end that
\* leaves no tracked touch while drawing, or the arrival of the second
\* tracked touch while drawing
Finalizes ==
    \/ op' = "mouseUp" /\ mode = "draw"
    \/ op' = "touchEnd" /\ Len(touches') = 0 /\ isDrawing
    \/ op' = "touchStart" /\ Len(touches') = 2 /\ mode # "erase" /\ isDrawing

\* C4 (stroke finalize discard): finalizing appends the active stroke to the
\* end of the committed list iff it has at least 2 points (a stroke of 1
\* point leaves the list as it was); afterwards there is no active stroke
\* and the drawing flag is false.
C4_FinalizeDiscard ==
    [][Finalizes =>
          /\ currentPath' = Null
          /\ isDrawing' = FALSE
          /\ IF currentPath = Null
             THEN paths' = paths
             ELSE IF Len(currentPath.points) >= 2
             THEN /\ Len(paths') = Len(paths) + 1
                  /\ paths'[Len(paths')] = currentPath
                  /\ SubSeq(paths', 1, Len(paths)) = paths
             ELSE paths' = paths]_vars

\* C4 witness: the second finger landed while a stroke of 2 points was
\* being drawn, and the stroke is the last of the committed list
C4_Witness ==
    /\ op = "touchStart"
    /\ Len(touches) = 2
    /\ currentPath = Null
    /\ ~isDrawing
    /\ Len(paths) = 1
    /\ paths[1].id = RandomUUID(uuid)
    /\ Len(paths[1].points) = 2

\* the square of the distance from p to the segment a-b: to a when the
\* projection of p falls before a (or the segment has no length), to b when
\* it falls after b, else to the line through a and b
SegmentDistance2(p, a, b) ==
    LET ux == Sub(b.x, a.x)
        uy == Sub(b.y, a.y)
        px == Sub(p.x, a.x)
        py == Sub(p.y, a.y)
        len2 == Add(Mul(ux, ux), Mul(uy, uy))
        dot == Add(Mul(px, ux), Mul(py, uy))
        cross == Sub(Mul(px, uy), Mul(py, ux))
    IN  IF ~Lt(I(0), dot) THEN Add(Mul(px, px), Mul(py, py))
        ELSE IF ~Lt(dot, len2)
        THEN Add(Pow2(Sub(p.x, b.x)), Pow2(Sub(p.y, b.y)))
        ELSE Div(Mul(cross, cross), len2)

\* all coordinates are finite numbers
FinitePoint(p) == IsFinite(ToNum(p.x)) /\ IsFinite(ToNum(p.y))

\* some pair of consecutive points of path is a segment closer to p than tol
Near(path, p, tol) ==
    \E i \in 1..(Len(path.points) - 1) :
        /\ FinitePoint(p)
        /\ FinitePoint(path.points[i])
        /\ FinitePoint(path.points[i + 1])
        /\ Lt(I(0), tol)
        /\ Lt(SegmentDistance2(p, path.points[i], path.points[i + 1]), Mul(tol, tol))

\* the committed strokes an erase at p is to leave
Kept(p) ==
    SelectSeq(paths, LAMBDA path : ~Near(path, p, Mul(I(2), strokeWidth)))

\* C5 (erase completeness): an erase at plane point p (a mouse-down or the
\* landing of the only finger in erase mode) removes exactly the committed strokes that
\* have a segment at distance strictly less than 2 x the stroke width from
\* p; the other strokes stay, whole and in order.
C5_EraseCompleteness ==
    [][/\ \A p \in MousePts :
            (mode = "erase" /\ MouseDownAt(p))
                => paths' = Kept(ScreenToSVG(p.x, p.y))
       /\ \A p \in TouchPts :
            (mode = "erase" /\ surface = <<>> /\ Len(touches) = 0 /\ TouchStartAt(p))
                => paths' = Kept(ScreenToSVG(p.x, p.y))]_vars

\* C5 witness: the erase at (4,4) with tolerance 4 removed the stroke through
\* (4,4) and kept the two strokes at distance exactly 4, in order
C5_Witness ==
    /\ op = "mouseDown"
    /\ mode = "erase"
    /\ strokeWidth = I(2)
    /\ Len(paths) = 2
    /\ paths[1].points = <<Pt(I(0), I(0)), Pt(I(8), I(0))>>
    /\ paths[2].points = <<Pt(I(0), I(0)), Pt(I(0), I(8))>>

\* C6 (viewport invariant): the viewport width and height are finite and
\* strictly greater than 0 in every reachable state.
C6_ViewportPositive ==
    /\ IsFinite(viewBoxWidth) /\ Lt(I(0), viewBoxWidth)
    /\ IsFinite(viewBoxHeight) /\ Lt(I(0), viewBoxHeight)

\* the two tracked touches are recorded at the same finite plane point
TouchesCoincide ==
    /\ \A k \in 1..2 : IsFinite(touches[k].lastX) /\ IsFinite(touches[k].lastY)
    /\ touches[1].lastX = touches[2].lastX
    /\ touches[1].lastY = touches[2].lastY

\* C7 (zero pinch distance is ignored): a touch-move of a pinch whose two
\* tracked touches coincide after the move, or whose initial distance was 0,
\* leaves the viewport origin, width and height unchanged.
C7_ZeroPinchIgnored ==
    [][(/\ PinchInProgress
        /\ op' = "touchMove"
        /\ PinchInProgress'
        /\ (initialPinchDistance = I(0) \/ TouchesCoincide'))
          => view' = view]_vars

\* C8 (unknown pointer ids are no-ops): a touch-move or a touch-end whose
\* changed touches all carry identifiers that are not tracked leaves the
\* tracking table, the viewport, the committed strokes, the active stroke,
\* the drawing flag and the pinch snapshot unchanged.
C8_UnknownIdsNoOp ==
    [][/\ \A moved \in MovedSets : \A to \in [moved -> TouchPts] :
            (/\ \A i \in moved : ~MapHas(touches, surface[i].identifier)
             /\ TouchMoveOf(moved, to))
                => UNCHANGED component
       /\ \A k \in 1..Len(surface) :
            (~MapHas(touches, surface[k].identifier) /\ TouchEndOf(k))
                => UNCHANGED component]_vars

\* C9 (malformed import yields a blank board): after importing a document
\* without svg root, without path elements, or with path data that is not
\* a list of numbers, the committed list is empty.
C9_MalformedImportBlank ==
    [][\A doc \in {NoSvgDoc, NoPathsDoc, MalformedDoc} :
           ImportOf(doc) => paths' = <<>>]_vars

\* the strokes without their identifiers
Strip(ps) ==
    [i \in 1..Len(ps) |->
        [points |-> ps[i].points, color |-> ps[i].color,
         strokeWidth |-> ps[i].strokeWidth]]

\* C10 (round trip): writing the strokes of a non-empty committed list as
\* path elements and importing them gives a list of the same length and
\* order with the same points, color and width (identifiers aside).
C10_RoundTrip ==
    paths # <<>> =>
        Strip(ParsedPaths(ExportSVG(paths).paths, 1, 1)) = Strip(paths)

\* C11 (stale pointer records are cleaned up): the tracking table keeps no
\* record for a contact that is no longer on the surface.
C11_NoStaleRecords ==
    \A i \in 1..Len(touches) :
        \E j \in 1..Len(surface) : surface[j].identifier = touches[i].id

\* an erase runs in this step
Erases ==
    /\ mode = "erase"
    /\ op' \in {"mouseDown", "mouseMove", "touchStart", "touchMove"}

\* the committed list after the step is the one before it without some of
\* its strokes: those that remain are whole and in the order they had
Remains ==
    paths' = SelectSeq(paths, LAMBDA q : \E i \in 1..Len(paths') : paths'[i] = q)

\* C12 (committed strokes are immutable): a step leaves the committed list
\* as it was, or appends the finalized active stroke, or (an erase) removes
\* whole strokes keeping the others unchanged and in order, or (an import)
\* replaces the list; no step changes the points, color or width of a
\* committed stroke.
C12_CommittedImmutable ==
    [][\/ paths' = paths
       \/ Finalizes /\ currentPath # Null /\ paths' = Append(paths, currentPath)
       \/ Erases /\ Remains
       \/ op' = "import"]_vars

\* C12 witness: a drawn stroke of 2 points was committed and is unchanged
\* after the wheel event that followed
C12_Witness ==
    /\ op = "wheel"
    /\ viewBoxWidth # I(1000)
    /\ Len(paths) = 1
    /\ paths[1].id = RandomUUID(1)
    /\ Len(paths[1].points) = 2

\* the plane point the viewport (x, y, width, height) has under the screen
\* point p of the surface
Under(x, y, width, height, p) ==
    Pt(Add(x, Mul(Div(Sub(p.x, rect.left), rect.width), width)),
       Add(y, Mul(Div(Sub(p.y, rect.top), rect.height), height)))

\* the viewport is one that maps screen points to plane points: its origin
\* is finite and its width and height are finite and positive
ProperView ==
    /\ IsFinite(viewBoxX) /\ IsFinite(viewBoxY)
    /\ IsFinite(viewBoxWidth) /\ Lt(I(0), viewBoxWidth)
    /\ IsFinite(viewBoxHeight) /\ Lt(I(0), viewBoxHeight)

\* C13 (wheel zoom anchoring): a wheel event at the screen point p multiplies
\* the viewport width and height by 11/10 when deltaY > 0 and by 9/10
\* otherwise, and the plane point that was under p before the event is
\* under p after it.
C13_WheelAnchoring ==
    [][\A p \in WheelPts : \A deltaY \in WheelDeltas :
          (ProperView /\ WheelAt(p, deltaY)) =>
              LET factor == IF Lt(I(0), deltaY) THEN Div(I(11), I(10))
                                               ELSE Div(I(9), I(10))
              IN  /\ viewBoxWidth' = Mul(viewBoxWidth, factor)
                  /\ viewBoxHeight' = Mul(viewBoxHeight, factor)
                  /\ Under(viewBoxX', viewBoxY', viewBoxWidth', viewBoxHeight', p)
                        = Under(viewBoxX, viewBoxY, viewBoxWidth, viewBoxHeight, p)]_vars

\* C13 witness: a wheel event of deltaY > 0 at (4,4) on the initial viewport
\* left the width 1100 and the origin at 4 - 4/1000 * 1100
C13_Witness ==
    /\ op = "wheel"
    /\ rect = InitRect
    /\ viewBoxWidth = I(1100)
    /\ viewBoxX = Div(I(-2), I(5))
    /\ viewBoxY = Div(I(-2), I(5))

\* the last active pointer is released in this step: a mouse-up, or the
\* touch-end of the only tracked touch while no mouse pan is under way
LastPointerUp ==
    \/ op' = "mouseUp"
    \/ op' = "touchEnd" /\ Len(touches) = 1 /\ Len(touches') = 0 /\ ~isPanning

\* C14 (last pointer-up returns to Idle in any mode): after the release of
\* the last active pointer there is no active stroke and no pan anchor, the
\* drawing and panning flags are false, and an active stroke that had at
\* least 2 points is the last of the committed list.
C14_LastPointerUpIdle ==
    [][LastPointerUp =>
          /\ currentPath' = Null
          /\ isDrawing' = FALSE
          /\ isPanning' = FALSE
          /\ IF isDrawing /\ currentPath # Null
             THEN Len(currentPath.points) >= 2 => paths' = Append(paths, currentPath)
             ELSE TRUE]_vars

\* no committed stroke within the erase tolerance of the plane point p is
\* in the committed list after the step
ErasedAt(p) ==
    \A i \in 1..Len(paths) :
        Near(paths[i], p, Mul(I(2), strokeWidth))
            => \A j \in 1..Len(paths') : paths'[j] # paths[i]

\* C15 (two fingers erase independently in Erase mode): while the mode is
\* Erase and two touches are tracked, the touch-start of the second touch
\* and a touch-move of either touch remove every committed stroke within
\* the erase tolerance of that touch's plane point.
C15_TwoFingerErase ==
    [][/\ \A p \in TouchPts :
            (mode = "erase" /\ Len(touches) = 1 /\ Len(surface) = 1 /\ TouchStartAt(p))
                => ErasedAt(ScreenToSVG(p.x, p.y))
       /\ \A k \in 1..Len(surface) : \A p \in TouchPts :
            (/\ mode = "erase" /\ Len(touches) = 2 /\ Len(surface) = 2
             /\ MapHas(touches, surface[k].identifier)
             /\ TouchMoveOf({k}, [i \in {k} |-> p]))
                => ErasedAt(ScreenToSVG(p.x, p.y))]_vars

\* C16 (erase on pointer-move): while the mode is Erase a move of the
\* pressed mouse (a mouse-move that follows a mouse-down or another
\* mouse-move) and a move of the single touch leave the committed list a
\* pointer-down at the same point leaves: without the strokes within the
\* erase tolerance of the mapped point.
C16_EraseOnMove ==
    [][/\ \A p \in MousePts :
            (mode = "erase" /\ op \in {"mouseDown", "mouseMove"} /\ MouseMoveTo(p))
                => paths' = Kept(ScreenToSVG(p.x, p.y))
       /\ \A p \in TouchPts :
            (/\ mode = "erase" /\ Len(touches) = 1 /\ Len(surface) = 1
             /\ surface[1].identifier = touches[1].id
             /\ TouchMoveOf({1}, [i \in {1} |-> p]))
                => paths' = Kept(ScreenToSVG(p.x, p.y))]_vars

\* three touches are tracked, the first two in a pinch whose snapshot was
\* taken on the initial viewport and which has not changed the viewport yet
ThirdDuringPinch ==
    /\ Len(touches) = 3
    /\ frozenViewBox # Null
    /\ pinchCenter # Null
    /\ StartedAtRest
    /\ view = <<frozenViewBox.x, frozenViewBox.y, frozenViewBox.width,
                frozenViewBox.height>>
    /\ ~IsRoot(initialPinchDistance)
    /\ Lt(I(0), initialPinchDistance)

\* C17 (a third pointer is ignored for pinch math): while a pinch is in
\* progress and a third touch is tracked, a move of the third touch leaves
\* the viewport unchanged, and after a move of the first two touches the
\* viewport width and height are the frozen ones times (initial distance) /
\* (distance of the first two touches now).
C17_ThirdPointerIgnored ==
    [][/\ \A k \in 1..Len(surface) : \A p \in TouchPts :
            (/\ ThirdDuringPinch
             /\ surface[k].identifier = touches[3].id
             /\ TouchMoveOf({k}, [i \in {k} |-> p]))
                => view' = view
       /\ (/\ ThirdDuringPinch
           /\ op' = "touchMove"
           /\ FingersApart(touches', surface'))
              => /\ Scaled(viewBoxWidth', frozenViewBox.width,
                           FingerDistance2(touches', surface'))
                 /\ Scaled(viewBoxHeight', frozenViewBox.height,
                           FingerDistance2(touches', surface'))]_vars

\* the step is a pan move that takes the pointer to the screen point p and
\* keeps the plane point grabbed under it: the viewport extent and the
\* committed list are unchanged
Panned(grabbed, p) ==
    /\ Under(viewBoxX', viewBoxY', viewBoxWidth', viewBoxHeight', p) = grabbed
    /\ viewBoxWidth' = viewBoxWidth
    /\ viewBoxHeight' = viewBoxHeight
    /\ paths' = paths

\* each move of the pressed mouse in Pan mode keeps the point grabbed at the
\* mouse-down under the pointer
MousePans ==
    \A p \in MousePts :
        (/\ mode = "pan" /\ ProperView
         /\ op \in {"mouseDown", "mouseMove"}
         /\ isPanning /\ currentPath # Null
         /\ MouseMoveTo(p))
            => Panned(currentPath.points[1], p)

\* each move of the single touch in Pan mode keeps the point that was under
\* the finger under it
TouchPans ==
    \A p \in TouchPts :
        (/\ mode = "pan" /\ ProperView
         /\ op \in {"touchStart", "touchMove"}
         /\ Len(touches) = 1 /\ Len(surface) = 1
         /\ surface[1].identifier = touches[1].id
         /\ TouchMoveOf({1}, [i \in {1} |-> p]))
            => Panned(Under(viewBoxX, viewBoxY, viewBoxWidth, viewBoxHeight,
                            Pt(surface[1].clientX, surface[1].clientY)), p)

\* C18 (pan follows the pointer): in Pan mode each move of the pressed
\* mouse and each move of the single touch shifts the viewport origin so
\* that the plane point grabbed at pointer-down stays under the pointer, and
\* leaves the viewport width and height and the committed list unchanged.
C18_PanFollowsPointer == [][MousePans /\ TouchPans]_vars

\* C19 (committed strokes have at least 2 points): every stroke of the
\* committed list has at least 2 points, strokes brought in by import
\* included.
C19_AtLeastTwoPoints ==
    \A i \in 1..Len(paths) : Len(paths[i].points) >= 2

\* the active-stroke slot holds the placeholder a mouse-down in Pan mode
\* stores (empty id)
HoldsPanAnchor == IF currentPath = Null THEN FALSE ELSE currentPath.id = ""

\* C20 (the pan anchor is never drawn into and never committed): no
\* committed stroke is the placeholder (every committed stroke has a
\* non-empty identifier), the placeholder keeps its single point, and the
\* active-stroke slot does not hold the placeholder while the drawing flag
\* is true.
C20_PanAnchorApart ==
    /\ \A i \in 1..Len(paths) : paths[i].id # ""
    /\ HoldsPanAnchor => Len(currentPath.points) = 1
    /\ isDrawing => ~HoldsPanAnchor

=============================================================================
